---- MODULE Spec2Model ----
(***************************************************************************)
(* Inversion DNSBL generator: the ICANN CZDS feed (modules/feeds/icann.py), *)
(* the blocklist upload (modules/utils/github.py) and the lookup script     *)
(* (main.py), as state machines.                                            *)
(*                                                                          *)
(* Text is a sequence of one-character strings.  "NL" stands for a line     *)
(* terminator of str.splitlines, "SP" for a whitespace character that is no *)
(* line terminator.  The compressed stream is a sequence of symbols: "H" a  *)
(* header byte, a literal (one output byte), "R" a back-reference repeating *)
(* the last output byte, "X" an invalid code.  "C3" "A9" are the two bytes   *)
(* of one non-ASCII character, written "U" once decoded.                    *)
(***************************************************************************)
EXTENDS Integers, Sequences, FiniteSets, TLC

VARIABLES
    \* ---- modules/feeds/icann.py: extract_zonefile_urls, _get_icann_domains
    zstream,      \* the bytes of the response body behind temp_file
    temp_file,    \* "unopened", "None" or "file"
    pos,          \* the read position of temp_file in zstream
    chunks,       \* the chunks read so far (history of temp_file.read)
    d,            \* zlib.decompressobj state
    last_line,    \* the cached trailing fragment
    lines,        \* `lines` of the latest loop iteration, after the pop
    yielded,      \* batches yielded by extract_zonefile_urls, in order
    dec_pc,       \* "open", "loop", "done", "raised"
    dec_err,      \* the exception that left extract_zonefile_urls, or "none"
    job_out,      \* batches yielded by _get_icann_domains, in order
    job_pc,       \* "iter", "done"
    \* ---- modules/feeds/icann.py: ICANN.__init__ and the jobs it creates
    parser_args,  \* [sources_icann, fetch]
    auth_body,    \* the JSON body the authentication endpoint answers with
    links_body,   \* the JSON body the endpoint listing answers with
    access_token, \* "unset", or what _authenticate returned
    issued_at,    \* the hour the token was received, -1 before
    now,          \* the clock, in hours
    requests,     \* the HTTP requests made so far, in order
    db_filenames, \* self.db_filenames
    jobs,         \* self.jobs
    started,      \* the jobs the scheduler has started
    ic_pc,        \* "init", "authenticated", "done", "raised"
    ic_err,       \* the exception that left __init__, or "none"
    \* ---- main.py
    mode,                  \* args.mode: "testing" or "full"
    whitelist,             \* what get_top1m_whitelist() returns
    top1m_urls,
    google_malicious_urls,
    yandex_malicious_urls,
    vendor_failed,         \* the vendors one of whose batch requests failed
    malicious_urls,
    written,               \* the calls of write_top1m_malicious_urls_to_file
    store_updates,         \* the number of calls of update_database
    main_pc,               \* "start", "google", "yandex", "merge", "done"
    \* ---- modules/utils/github.py: upload_blocklists
    gh_files,       \* the blocklist files: their content, or "unreadable"
    gh_env,         \* what the environment file gives: "ok", "no_token", ...
    gh_fail_at,     \* the GitHub call that fails in this run, or "none"
    base_tree,      \* the content of each path in the tree of main
    main_ref,       \* the commit heads/main points to
    element_list,
    trees_created,  \* the element lists given to create_git_tree
    commits_created,\* the commits create_git_commit made
    files_changed,  \* comparison.files, as a set of paths
    gh_log,         \* the last message logged
    gh_pc           \* "start", "read", "commit", "push", "returned"

decVars == <<zstream, temp_file, pos, chunks, d, last_line, lines, yielded,
             dec_pc, dec_err, job_out, job_pc>>

icannVars == <<parser_args, auth_body, links_body, access_token, issued_at, now,
               requests, db_filenames, jobs, started, ic_pc, ic_err>>

mainVars == <<mode, whitelist, top1m_urls, google_malicious_urls,
              yandex_malicious_urls, vendor_failed, malicious_urls, written,
              store_updates, main_pc>>

ghVars == <<gh_files, gh_env, gh_fail_at, base_tree, main_ref, element_list,
            trees_created, commits_created, files_changed, gh_log, gh_pc>>

vars == <<decVars, icannVars, mainVars, ghVars>>

\* what the steps of one program leave alone
DecFrame == UNCHANGED <<icannVars, mainVars, ghVars>>
IcannFrame == UNCHANGED <<decVars, mainVars, ghVars>>
MainFrame == UNCHANGED <<decVars, icannVars, ghVars>>
GhFrame == UNCHANGED <<decVars, icannVars, mainVars>>

----------------------------------------------------------------------------
\* Bounds of the model

\* longest compressed body (after the header) of a stream
MaxBody == 4
\* most symbols one temp_file.read returns (1024**2 in the source, scaled)
ReadSize == 4
\* length of the stream header (10 bytes for gzip, scaled)
HdrLen == 1
\* most endpoints the listing returns
MaxEndpoints == 2
\* the clock advances in steps of TickHours, up to MaxClock
TickHours == 12
MaxClock == 48
\* longest whitelist
MaxWhitelist == 3
\* how many of the last whitelist entries are looked up (1500 in the source,
\* scaled)
testing_quantity == 2
\* most hostnames in one request to a vendor
BatchSize == 1
\* most blocklist files in one upload
MaxFiles == 2

\* "The Access Token expires in 24 hours upon receipt"
TokenValidityHours == 24

----------------------------------------------------------------------------
\* Text helpers (Python str semantics)

Letters == {"a", "B"}
Literals == Letters \cup {".", "SP", "NL"}
LineEnds == {"NL"}
Whitespace == {"SP", "NL"}

\* sequences over S of length 0..n
SeqUpTo(S, n) == UNION {[1..k -> S] : k \in 0..n}

\* index of the first element of s in S, 0 when there is none
FirstIn(s, S) ==
    IF \E i \in 1..Len(s) : s[i] \in S
    THEN CHOOSE i \in 1..Len(s) : s[i] \in S /\ \A j \in 1..(i-1) : s[j] \notin S
    ELSE 0

\* index of the first element of s not in S, 0 when there is none
FirstNotIn(s, S) ==
    IF \E i \in 1..Len(s) : s[i] \notin S
    THEN CHOOSE i \in 1..Len(s) : s[i] \notin S /\ \A j \in 1..(i-1) : s[j] \in S
    ELSE 0

\* str.splitlines(): the lines without their terminators; no empty last line
RECURSIVE splitlines(_)
splitlines(s) ==
    IF s = <<>> THEN <<>>
    ELSE LET i == FirstIn(s, LineEnds)
         IN  IF i = 0 THEN <<s>>
             ELSE <<SubSeq(s, 1, i-1)>> \o splitlines(SubSeq(s, i+1, Len(s)))

\* str.split(): the maximal runs of non-whitespace characters
RECURSIVE split(_)
split(s) ==
    LET b == FirstNotIn(s, Whitespace)
    IN  IF b = 0 THEN <<>>
        ELSE LET rest == SubSeq(s, b, Len(s))
                 e == FirstIn(rest, Whitespace)
             IN  IF e = 0 THEN <<rest>>
                 ELSE <<SubSeq(rest, 1, e-1)>> \o split(SubSeq(rest, e, Len(rest)))

LowerChar(c) == IF c = "B" THEN "b" ELSE c

\* str.lower()
lower(s) == [i \in 1..Len(s) |-> LowerChar(s[i])]

\* a plausible slip: rstrip(".") written as removesuffix(".")
rstrip_one(s) ==
    IF s # <<>> /\ s[Len(s)] = "." THEN SubSeq(s, 1, Len(s)-1) ELSE s

\* str.rstrip("."): every trailing "." is removed
RECURSIVE rstrip_dot(_)
rstrip_dot(s) ==
    IF s # <<>> /\ s[Len(s)] = "." THEN rstrip_dot(SubSeq(s, 1, Len(s)-1)) ELSE s

\* `url` of one line: "" when splitted_line is empty
UrlOf(line) ==
    LET splitted_line == split(line)
    IN  IF splitted_line = <<>> THEN <<>>
        ELSE rstrip_dot(lower(splitted_line[1]))

\* the list comprehension: one url per line whose url is truthy
RECURSIVE UrlBatch(_)
UrlBatch(ls) ==
    IF ls = <<>> THEN <<>>
    ELSE LET url == UrlOf(Head(ls))
         IN  (IF url = <<>> THEN <<>> ELSE <<url>>) \o UrlBatch(Tail(ls))

\* generate_hostname_expressions(batch): the batch as a set of hostnames
generate_hostname_expressions(batch) == {batch[i] : i \in 1..Len(batch)}

----------------------------------------------------------------------------
\* zlib.decompressobj(zlib.MAX_WBITS | 32)

\* the bytes a stream can decompress to
Bytes == Literals \cup {"C3", "A9"}

\* state of a fresh decompressor: header bytes still expected, last output
NewDecompressObj == [hdr |-> HdrLen, last |-> "none"]

\* d.decompress(chunk), one symbol at a time: the new state, the output and
\* whether zlib.error was raised
RECURSIVE decompress(_, _)
decompress(st, chunk) ==
    IF chunk = <<>> THEN [d |-> st, out |-> <<>>, err |-> FALSE]
    ELSE LET c == Head(chunk)
             bad == [d |-> st, out |-> <<>>, err |-> TRUE]
             step ==
               IF st.hdr > 0
               THEN IF c = "H" THEN [d |-> [st EXCEPT !.hdr = @ - 1], out |-> <<>>, err |-> FALSE]
                    ELSE bad
               ELSE IF c \in Bytes THEN [d |-> [st EXCEPT !.last = c], out |-> <<c>>, err |-> FALSE]
               ELSE IF c = "R" /\ st.last # "none" THEN [d |-> st, out |-> <<st.last>>, err |-> FALSE]
               ELSE bad
         IN  IF step.err THEN bad
             ELSE LET rest == decompress(step.d, Tail(chunk))
                  IN  [d |-> rest.d, out |-> step.out \o rest.out, err |-> rest.err]

\* bytes.decode(): an ASCII byte is its character, "C3" "A9" is "U"; a lone
\* or cut-off byte of the pair raises UnicodeDecodeError
RECURSIVE decode(_)
decode(bytes) ==
    IF bytes = <<>> THEN [text |-> <<>>, err |-> FALSE]
    ELSE IF Head(bytes) \in Literals
    THEN LET rest == decode(Tail(bytes))
         IN  [text |-> <<Head(bytes)>> \o rest.text, err |-> rest.err]
    ELSE IF Head(bytes) = "C3" /\ Len(bytes) >= 2 /\ bytes[2] = "A9"
    THEN LET rest == decode(SubSeq(bytes, 3, Len(bytes)))
         IN  [text |-> <<"U">> \o rest.text, err |-> rest.err]
    ELSE [text |-> <<>>, err |-> TRUE]

\* the chunk temp_file.read(n) returns at position `at`: at most n symbols,
\* empty at the end of the file
ReadAt(at, n) ==
    SubSeq(zstream, at + 1, IF at + n > Len(zstream) THEN Len(zstream) ELSE at + n)

RECURSIVE Concat(_)
Concat(ss) == IF ss = <<>> THEN <<>> ELSE Head(ss) \o Concat(Tail(ss))

----------------------------------------------------------------------------
\* extract_zonefile_urls driven by _get_icann_domains

\* compressed streams: a header followed by a body, or a transfer cut off
\* inside the header; a body symbol may be corrupt ("X")
Header == [i \in 1..HdrLen |-> "H"]
Streams ==
    {Header \o b : b \in SeqUpTo(Bytes \cup {"R", "X"}, MaxBody)}
        \cup {SubSeq(Header, 1, k) : k \in 0..HdrLen}

DecInit ==
    /\ zstream \in Streams
    /\ temp_file = "unopened"
    /\ pos = 0
    /\ chunks = <<>>
    /\ d = NewDecompressObj
    /\ last_line = <<>>
    /\ lines = <<>>
    /\ yielded = <<>>
    /\ dec_pc = "open"
    /\ dec_err = "none"
    /\ job_out = <<>>
    /\ job_pc = "iter"

\* a plausible slip: the test for None is left out and `with None` raises
GetStreamNoneUnchecked ==
    /\ dec_pc = "open"
    /\ temp_file' = "None"
    /\ dec_pc' = "raised"
    /\ dec_err' = "AttributeError"
    /\ job_out' = Append(job_out, {})
    /\ job_pc' = "done"
    /\ UNCHANGED <<zstream, pos, chunks, d, last_line, lines, yielded>>
    /\ DecFrame

\* get_async_stream returned None: one empty batch, then the end
GetStreamNone ==
    /\ dec_pc = "open"
    /\ temp_file' = "None"
    /\ yielded' = Append(yielded, <<>>)
    /\ job_out' = Append(job_out, generate_hostname_expressions(<<>>))
    /\ dec_pc' = "done"
    /\ job_pc' = "done"
    /\ UNCHANGED <<zstream, pos, chunks, d, last_line, lines, dec_err>>
    /\ DecFrame

\* get_async_stream returned a file: the decompressor and last_line are set up
GetStreamFile ==
    /\ dec_pc = "open"
    /\ temp_file' = "file"
    /\ pos' = 0
    /\ d' = NewDecompressObj
    /\ last_line' = <<>>
    /\ dec_pc' = "loop"
    /\ UNCHANGED <<zstream, chunks, lines, yielded, dec_err, job_out, job_pc>>
    /\ DecFrame

\* the exception leaves extract_zonefile_urls; _get_icann_domains catches it,
\* yields set() and ends
Raise(err) ==
    /\ dec_pc' = "raised"
    /\ dec_err' = err
    /\ job_out' = Append(job_out, {})
    /\ job_pc' = "done"
    /\ UNCHANGED <<last_line, lines, yielded>>

\* one iteration of the loop whose chunk decompresses: split, pop, yield
ChunkDecoded(out) ==
    LET decoded == decode(out)
        current_chunk_string == last_line \o decoded.text
        ls == splitlines(current_chunk_string)
    IN  IF decoded.err
        THEN Raise("UnicodeDecodeError")
        ELSE IF ls = <<>>
        THEN Raise("IndexError")
        ELSE /\ last_line' = ls[Len(ls)]
             /\ lines' = SubSeq(ls, 1, Len(ls) - 1)
             /\ yielded' = Append(yielded, UrlBatch(lines'))
             /\ job_out' = Append(job_out, generate_hostname_expressions(UrlBatch(lines')))
             /\ UNCHANGED <<dec_pc, dec_err, job_pc>>

\* a plausible slip: the error is swallowed and the stream ends normally
ChunkCorruptSwallowed ==
    /\ dec_pc' = "done"
    /\ job_pc' = "done"
    /\ yielded' = Append(yielded, <<>>)
    /\ job_out' = Append(job_out, {})
    /\ UNCHANGED <<last_line, lines, dec_err>>

\* d.decompress(chunk) raises zlib.error
ChunkCorrupt == Raise("zlib.error")

\* a non-empty read
NextChunk ==
    /\ dec_pc = "loop"
    /\ \E n \in 1..ReadSize :
         LET chunk == ReadAt(pos, n)
             r == decompress(d, chunk)
         IN  /\ chunk # <<>>
             /\ pos' = pos + Len(chunk)
             /\ chunks' = Append(chunks, chunk)
             /\ d' = r.d
             /\ IF r.err THEN ChunkCorrupt ELSE ChunkDecoded(r.out)
    /\ UNCHANGED <<zstream, temp_file>>
    /\ DecFrame

\* the first empty read ends the loop; last_line is flushed when it has a url
EndOfStream ==
    /\ dec_pc = "loop"
    /\ ReadAt(pos, ReadSize) = <<>>
    /\ LET url == UrlOf(last_line)
       IN  IF url # <<>>
           THEN /\ yielded' = Append(yielded, <<url>>)
                /\ job_out' = Append(job_out, generate_hostname_expressions(<<url>>))
           ELSE UNCHANGED <<yielded, job_out>>
    /\ dec_pc' = "done"
    /\ job_pc' = "done"
    /\ UNCHANGED <<zstream, temp_file, pos, chunks, d, last_line, lines, dec_err>>
    /\ DecFrame

DecNext == GetStreamNone \/ GetStreamFile \/ NextChunk \/ EndOfStream

\* the decoder before any stream was requested
DecIdle ==
    /\ zstream = <<>>
    /\ temp_file = "unopened"
    /\ pos = 0
    /\ chunks = <<>>
    /\ d = NewDecompressObj
    /\ last_line = <<>>
    /\ lines = <<>>
    /\ yielded = <<>>
    /\ dec_pc = "open"
    /\ dec_err = "none"
    /\ job_out = <<>>
    /\ job_pc = "iter"

----------------------------------------------------------------------------
\* ICANN.__init__: _authenticate, _get_approved_endpoints, the job list

\* the part of s after the last c, s itself when there is none:
\* s.rsplit(c, 1)[-1]
AfterLast(s, c) ==
    IF \E i \in 1..Len(s) : s[i] = c
    THEN LET i == CHOOSE k \in 1..Len(s) :
                      s[k] = c /\ \A j \in (k+1)..Len(s) : s[j] # c
         IN  SubSeq(s, i + 1, Len(s))
    ELSE s

\* s.rsplit(c): the fields between the occurrences of c
RECURSIVE rsplit(_, _)
rsplit(s, c) ==
    LET i == FirstIn(s, {c})
    IN  IF i = 0 THEN <<s>>
        ELSE <<SubSeq(s, 1, i - 1)>> \o rsplit(SubSeq(s, i + 1, Len(s)), c)

\* url.rsplit('/', 1)[-1].rsplit('.'): [-2] needs two fields
UrlFields(url) == rsplit(AfterLast(url, "/"), ".")
DbFilenameRaises(url) == Len(UrlFields(url)) < 2
\* a plausible slip: the last field ([-1]) is taken, not the one before it
DbFilenameLastField(url) == <<"icann_">> \o UrlFields(url)[Len(UrlFields(url))]
DbFilename(url) == <<"icann_">> \o UrlFields(url)[Len(UrlFields(url)) - 1]

\* the URLs a listing can hold: "h/c.z", "h/n.z", and "h/x" with no suffix
EndpointUrls ==
    { <<"h", "/", "c", ".", "z">>, <<"h", "/", "n", ".", "z">>, <<"h", "/", "x">> }

\* JSON bodies of the listing: a list of URLs, or an object (its keys)
LinksBodies ==
    {[is_list |-> TRUE, items |-> e] : e \in SeqUpTo(EndpointUrls, MaxEndpoints)}
        \cup {[is_list |-> FALSE, items |-> << <<"m", "s", "g">> >>]}

\* JSON bodies of the authentication: with or without "accessToken"
AuthBodies ==
    {[has_token |-> TRUE, accessToken |-> "tok"], [has_token |-> FALSE, accessToken |-> "none"]}

\* body.get("accessToken", "")
TokenOf(body) == IF body.has_token THEN body.accessToken ELSE ""

\* a plausible slip: the isinstance check is left out
ApprovedEndpointsUnchecked(body) == body.items

\* what _get_approved_endpoints returns for a body
ApprovedEndpoints(body) == IF ~body.is_list THEN <<>> ELSE body.items

Request(kind, token) ==
    [kind |-> kind, token |-> token, at |-> now, issued |-> issued_at]

IcannInit ==
    /\ parser_args \in [sources_icann : BOOLEAN, fetch : BOOLEAN]
    /\ auth_body \in AuthBodies
    /\ links_body \in LinksBodies
    /\ access_token = "unset"
    /\ issued_at = -1
    /\ now = 0
    /\ requests = <<>>
    /\ db_filenames = <<>>
    /\ jobs = <<>>
    /\ started = {}
    /\ ic_pc = "init"
    /\ ic_err = "none"

\* "icann" is not among the sources: nothing is requested
NotSelected ==
    /\ ic_pc = "init"
    /\ ~parser_args.sources_icann
    /\ ic_pc' = "done"
    /\ UNCHANGED <<parser_args, auth_body, links_body, access_token, issued_at, now,
                   requests, db_filenames, jobs, started, ic_err>>
    /\ IcannFrame

\* a plausible slip: the POST is repeated when the body has no token
AuthenticateRetry ==
    /\ ic_pc = "init"
    /\ parser_args.sources_icann
    /\ LET post == [kind |-> "authenticate", token |-> "none", at |-> now, issued |-> -1]
       IN  requests' = IF auth_body.has_token
                       THEN Append(requests, post)
                       ELSE Append(Append(requests, post), post)
    /\ access_token' = TokenOf(auth_body)
    /\ issued_at' = now
    /\ ic_pc' = "authenticated"
    /\ UNCHANGED <<parser_args, auth_body, links_body, now, db_filenames, jobs,
                   started, ic_err>>
    /\ IcannFrame

\* _authenticate: one POST; the token, or "" when the body has none
Authenticate ==
    /\ ic_pc = "init"
    /\ parser_args.sources_icann
    /\ requests' = Append(requests, [kind |-> "authenticate", token |-> "none",
                                      at |-> now, issued |-> -1])
    /\ access_token' = TokenOf(auth_body)
    /\ issued_at' = now
    /\ ic_pc' = "authenticated"
    /\ UNCHANGED <<parser_args, auth_body, links_body, now, db_filenames, jobs,
                   started, ic_err>>
    /\ IcannFrame

\* _get_approved_endpoints, then db_filenames and, when fetching, the jobs
ListEndpoints ==
    /\ ic_pc = "authenticated"
    /\ requests' = Append(requests, Request("links", access_token))
    /\ LET endpoints == ApprovedEndpoints(links_body)
           names == [i \in 1..Len(endpoints) |-> DbFilename(endpoints[i])]
       IN  IF \E i \in 1..Len(endpoints) : DbFilenameRaises(endpoints[i])
           THEN /\ ic_pc' = "raised"
                /\ ic_err' = "IndexError"
                /\ UNCHANGED <<db_filenames, jobs>>
           ELSE /\ ic_pc' = "done"
                /\ db_filenames' = names
                /\ jobs' = IF parser_args.fetch
                           THEN [i \in 1..Len(endpoints) |->
                                   [db_filename |-> names[i],
                                    endpoint |-> endpoints[i],
                                    access_token |-> access_token]]
                           ELSE <<>>
                /\ UNCHANGED ic_err
    /\ UNCHANGED <<parser_args, auth_body, links_body, access_token, issued_at, now, started>>
    /\ IcannFrame

\* the scheduler starts job i: _get_icann_domains requests the zone file
\* with the token the job carries
StartJob(i) ==
    /\ ic_pc = "done"
    /\ i \in (1..Len(jobs)) \ started
    /\ started' = started \cup {i}
    /\ requests' = Append(requests, Request("download", jobs[i].access_token))
    /\ UNCHANGED <<parser_args, auth_body, links_body, access_token, issued_at, now,
                   db_filenames, jobs, ic_pc, ic_err>>
    /\ IcannFrame

\* time passes while discovered jobs wait for their turn
Tick ==
    /\ ic_pc = "done"
    /\ now < MaxClock
    /\ now' = now + TickHours
    /\ UNCHANGED <<parser_args, auth_body, links_body, access_token, issued_at,
                   requests, db_filenames, jobs, started, ic_pc, ic_err>>
    /\ IcannFrame

IcannNext ==
    \/ NotSelected
    \/ Authenticate
    \/ ListEndpoints
    \/ \E i \in 1..MaxEndpoints : StartJob(i)
    \/ Tick

\* the feed before it is constructed
IcannIdle ==
    /\ parser_args = [sources_icann |-> FALSE, fetch |-> FALSE]
    /\ auth_body = [has_token |-> FALSE, accessToken |-> "none"]
    /\ links_body = [is_list |-> TRUE, items |-> <<>>]
    /\ access_token = "unset"
    /\ issued_at = -1
    /\ now = 0
    /\ requests = <<>>
    /\ db_filenames = <<>>
    /\ jobs = <<>>
    /\ started = {}
    /\ ic_pc = "init"
    /\ ic_err = "none"

----------------------------------------------------------------------------
\* main.py

Hosts == {"h1", "h2", "h3"}
Vendors == {"Google", "Yandex"}

ToSet(q) == {q[i] : i \in 1..Len(q)}
NoDuplicates(q) == \A i, j \in 1..Len(q) : q[i] = q[j] => i = j

\* the lists holding each element of S once: list(set(...)) in any order
ListsOf(S) == {q \in [1..Cardinality(S) -> S] : ToSet(q) = S}

\* whitelists: rankings without repetition
Whitelists == {q \in SeqUpTo(Hosts, MaxWhitelist) : NoDuplicates(q)}

\* q[-n:]
LastN(q, n) == IF Len(q) <= n THEN q ELSE SubSeq(q, Len(q) - n + 1, Len(q))

\* the b-th batch of urls
BatchCount(urls) == (Len(urls) + BatchSize - 1) \div BatchSize
BatchAt(urls, b) ==
    SubSeq(urls, (b - 1) * BatchSize + 1,
           IF b * BatchSize > Len(urls) THEN Len(urls) ELSE b * BatchSize)

\* what a vendor answers to one batch: a failure, or the hostnames it flags
BatchResponses ==
    {[ok |-> TRUE, flagged |-> F] : F \in SUBSET Hosts} \cup {[ok |-> FALSE, flagged |-> {}]}

\* the hostnames of one batch the vendor flagged; none when the request failed
BatchVerdict(batch, resp) ==
    IF resp.ok THEN SelectSeq(batch, LAMBDA h : h \in resp.flagged) ELSE <<>>

\* SafeBrowsing.get_malicious_URLs(urls), given the vendor's answers
RECURSIVE VerdictsFrom(_, _, _)
VerdictsFrom(urls, resps, b) ==
    IF b > BatchCount(urls) THEN <<>>
    ELSE BatchVerdict(BatchAt(urls, b), resps[b]) \o VerdictsFrom(urls, resps, b + 1)
get_malicious_URLs(urls, resps) == VerdictsFrom(urls, resps, 1)

\* a plausible slip: the two lists are joined without set()
MaliciousListsNoSet(g, y) == {g \o y}

\* a plausible slip: only the first vendor's list is kept
MaliciousListsGoogleOnly(g, y) == ListsOf(ToSet(g))

\* list(set(google_malicious_urls + yandex_malicious_urls))
MaliciousLists(g, y) == ListsOf(ToSet(g \o y))

\* a plausible slip: the arguments of the writer are swapped
WriterArgsSwapped(m, t) == [malicious_urls |-> t, top1m_urls |-> m]

\* write_top1m_malicious_urls_to_file(malicious_urls, top1m_urls)
WriterArgs(m, t) == [malicious_urls |-> m, top1m_urls |-> t]

MainInit ==
    /\ mode \in {"testing", "full"}
    /\ whitelist \in Whitelists
    /\ top1m_urls = <<>>
    /\ google_malicious_urls = <<>>
    /\ yandex_malicious_urls = <<>>
    /\ vendor_failed = {}
    /\ malicious_urls = <<>>
    /\ written = <<>>
    /\ store_updates = 0
    /\ main_pc = "start"

\* a plausible slip: the `else` is missing and the lookups follow the update
UpdateDatabaseFallsThrough ==
    /\ main_pc = "start"
    /\ mode = "full"
    /\ store_updates' = store_updates + 1
    /\ top1m_urls' = LastN(whitelist, testing_quantity)
    /\ main_pc' = "google"
    /\ UNCHANGED <<mode, whitelist, google_malicious_urls,
                   yandex_malicious_urls, vendor_failed, malicious_urls, written>>
    /\ MainFrame

\* mode "full": update_database()
UpdateDatabase ==
    /\ main_pc = "start"
    /\ mode = "full"
    /\ store_updates' = store_updates + 1
    /\ main_pc' = "done"
    /\ UNCHANGED <<mode, whitelist, top1m_urls, google_malicious_urls,
                   yandex_malicious_urls, vendor_failed, malicious_urls, written>>
    /\ MainFrame

\* mode "testing": the last testing_quantity entries of the whitelist
TakeCandidates ==
    /\ main_pc = "start"
    /\ mode = "testing"
    /\ top1m_urls' = LastN(whitelist, testing_quantity)
    /\ main_pc' = "google"
    /\ UNCHANGED <<mode, whitelist, google_malicious_urls, yandex_malicious_urls,
                   vendor_failed, malicious_urls, written, store_updates>>
    /\ MainFrame

\* gsb.get_malicious_URLs(top1m_urls)
LookupGoogle ==
    /\ main_pc = "google"
    /\ \E resps \in [1..BatchCount(top1m_urls) -> BatchResponses] :
         /\ google_malicious_urls' = get_malicious_URLs(top1m_urls, resps)
         /\ vendor_failed' = vendor_failed \cup
                IF \E b \in DOMAIN resps : ~resps[b].ok THEN {"Google"} ELSE {}
    /\ main_pc' = "yandex"
    /\ UNCHANGED <<mode, whitelist, top1m_urls, yandex_malicious_urls,
                   malicious_urls, written, store_updates>>
    /\ MainFrame

\* ysb.get_malicious_URLs(top1m_urls)
LookupYandex ==
    /\ main_pc = "yandex"
    /\ \E resps \in [1..BatchCount(top1m_urls) -> BatchResponses] :
         /\ yandex_malicious_urls' = get_malicious_URLs(top1m_urls, resps)
         /\ vendor_failed' = vendor_failed \cup
                IF \E b \in DOMAIN resps : ~resps[b].ok THEN {"Yandex"} ELSE {}
    /\ main_pc' = "merge"
    /\ UNCHANGED <<mode, whitelist, top1m_urls, google_malicious_urls,
                   malicious_urls, written, store_updates>>
    /\ MainFrame

\* the union of the two lists, handed to the writer with the candidates
MergeAndWrite ==
    /\ main_pc = "merge"
    /\ malicious_urls' \in MaliciousLists(google_malicious_urls, yandex_malicious_urls)
    /\ written' = Append(written, WriterArgs(malicious_urls', top1m_urls))
    /\ main_pc' = "done"
    /\ UNCHANGED <<mode, whitelist, top1m_urls, google_malicious_urls,
                   yandex_malicious_urls, vendor_failed, store_updates>>
    /\ MainFrame

MainNext ==
    UpdateDatabase \/ TakeCandidates \/ LookupGoogle \/ LookupYandex \/ MergeAndWrite

\* the script before it runs
MainIdle ==
    /\ mode = "full"
    /\ whitelist = <<>>
    /\ top1m_urls = <<>>
    /\ google_malicious_urls = <<>>
    /\ yandex_malicious_urls = <<>>
    /\ vendor_failed = {}
    /\ malicious_urls = <<>>
    /\ written = <<>>
    /\ store_updates = 0
    /\ main_pc = "start"

----------------------------------------------------------------------------
\* modules/utils/github.py: upload_blocklists

\* contents of a file; "" is the empty file
Contents == {"", "d1", "d2"}

\* the GitHub calls of one upload, in order
GhCalls == <<"get_repo", "get_git_ref", "get_git_tree", "create_git_tree",
             "get_git_commit", "create_git_commit", "compare", "edit">>
CallIndex(c) == CHOOSE i \in 1..Len(GhCalls) : GhCalls[i] = c

\* whether the run's failing call is among the calls first..last
FailsWithin(first, last) ==
    /\ gh_fail_at # "none"
    /\ CallIndex(first) <= CallIndex(gh_fail_at)
    /\ CallIndex(gh_fail_at) <= CallIndex(last)
\* whether call c is reached and returns in a step that makes first..last
Returns(c, first, last) ==
    ~FailsWithin(first, last) \/ CallIndex(c) < CallIndex(gh_fail_at)

\* the elements for the non-empty files: path i stands for file_names[i]
RECURSIVE ElementsFrom(_, _)
ElementsFrom(files, i) ==
    IF i > Len(files) THEN <<>>
    ELSE (IF files[i] # "" THEN <<[path |-> i, data |-> files[i]]>> ELSE <<>>)
            \o ElementsFrom(files, i + 1)

\* a plausible slip: the check for empty data is left out
NonEmptyElementsAll(files) == [i \in 1..Len(files) |-> [path |-> i, data |-> files[i]]]

\* element_list after the loop over path_list
NonEmptyElements(files) == ElementsFrom(files, 1)

\* repo.compare("main", commit.sha).files for a commit whose tree is the
\* base tree with the elements put in: the paths whose content differs
Compare(base, elements) ==
    {elements[k].path : k \in {j \in 1..Len(elements) : base[elements[j].path] # elements[j].data}}

\* a plausible slip: the push is decided on element_list
ShouldPushNonEmpty(changed, elements) == elements # <<>>

\* `if files_changed:`
ShouldPush(changed, elements) == changed # {}

GhInit ==
    /\ gh_files \in SeqUpTo(Contents \cup {"unreadable"}, MaxFiles)
    /\ gh_env \in {"ok", "no_key", "no_token", "no_repo_name"}
    /\ gh_fail_at \in {"none"} \cup ToSet(GhCalls)
    /\ base_tree \in [1..MaxFiles -> {"absent", "d1", "d2"}]
    /\ main_ref = "c0"
    /\ element_list = <<>>
    /\ trees_created = <<>>
    /\ commits_created = <<>>
    /\ files_changed = {}
    /\ gh_log = "none"
    /\ gh_pc = "start"

\* a plausible slip: the handler logs and raises again
CaughtReraised ==
    /\ gh_log' = "failed"
    /\ gh_pc' = "raised"

\* `except Exception`: two warnings are logged and the function returns
Caught ==
    /\ gh_log' = "failed"
    /\ gh_pc' = "returned"

\* the environment file, the repository, the reference and the tree of main
Prepare ==
    /\ gh_pc = "start"
    /\ IF gh_env # "ok" \/ FailsWithin("get_repo", "get_git_tree")
       THEN Caught
       ELSE gh_pc' = "read" /\ UNCHANGED gh_log
    /\ UNCHANGED <<gh_files, gh_env, gh_fail_at, base_tree, main_ref, element_list,
                   trees_created, commits_created, files_changed>>
    /\ GhFrame

\* the loop over path_list: an element for each file that has data
ReadFiles ==
    /\ gh_pc = "read"
    /\ IF \E i \in 1..Len(gh_files) : gh_files[i] = "unreadable"
       THEN Caught /\ UNCHANGED element_list
       ELSE /\ element_list' = NonEmptyElements(gh_files)
            /\ gh_pc' = "commit"
            /\ UNCHANGED gh_log
    /\ UNCHANGED <<gh_files, gh_env, gh_fail_at, base_tree, main_ref,
                   trees_created, commits_created, files_changed>>
    /\ GhFrame

\* `if element_list:` a tree, a commit on main's commit, and its comparison
CreateCommit ==
    /\ gh_pc = "commit"
    /\ IF element_list = <<>>
       THEN /\ gh_pc' = "push"
            /\ UNCHANGED <<trees_created, commits_created, files_changed, gh_log>>
       ELSE /\ trees_created' =
                  IF Returns("create_git_tree", "create_git_tree", "compare")
                  THEN Append(trees_created, element_list) ELSE trees_created
            /\ commits_created' =
                  IF Returns("create_git_commit", "create_git_tree", "compare")
                  THEN Append(commits_created, [sha |-> "c1", parent |-> main_ref,
                                                 tree |-> element_list])
                  ELSE commits_created
            /\ IF FailsWithin("create_git_tree", "compare")
               THEN Caught /\ UNCHANGED files_changed
               ELSE /\ files_changed' = Compare(base_tree, element_list)
                    /\ gh_pc' = "push"
                    /\ UNCHANGED gh_log
    /\ UNCHANGED <<gh_files, gh_env, gh_fail_at, base_tree, main_ref, element_list>>
    /\ GhFrame

\* `if files_changed:` main is moved to the commit; otherwise a message
UpdateRef ==
    /\ gh_pc = "push"
    /\ IF ShouldPush(files_changed, element_list)
       THEN IF gh_fail_at = "edit"
            THEN Caught /\ UNCHANGED main_ref
            ELSE /\ main_ref' = "c1"
                 /\ gh_log' = "updated"
                 /\ gh_pc' = "returned"
       ELSE /\ gh_log' = IF element_list = <<>> THEN "empty" ELSE "no_changes"
            /\ gh_pc' = "returned"
            /\ UNCHANGED main_ref
    /\ UNCHANGED <<gh_files, gh_env, gh_fail_at, base_tree, element_list,
                   trees_created, commits_created, files_changed>>
    /\ GhFrame

GhNext == Prepare \/ ReadFiles \/ CreateCommit \/ UpdateRef

\* the upload before it is called
GhIdle ==
    /\ gh_files = <<>>
    /\ gh_env = "ok"
    /\ gh_fail_at = "none"
    /\ base_tree = [i \in 1..MaxFiles |-> "absent"]
    /\ main_ref = "c0"
    /\ element_list = <<>>
    /\ trees_created = <<>>
    /\ commits_created = <<>>
    /\ files_changed = {}
    /\ gh_log = "none"
    /\ gh_pc = "start"

----------------------------------------------------------------------------
\* Specifications

\* one job's stream being decoded
InitDecoder == DecInit /\ IcannIdle /\ MainIdle /\ GhIdle
SpecDecoder == InitDecoder /\ [][DecNext]_vars

\* the construction of the ICANN feed and the start of its jobs
InitIcann == IcannInit /\ DecIdle /\ MainIdle /\ GhIdle
SpecIcann == InitIcann /\ [][IcannNext]_vars

\* one run of main.py
InitMain == MainInit /\ DecIdle /\ IcannIdle /\ GhIdle
SpecMain == InitMain /\ [][MainNext]_vars

\* one call of upload_blocklists
InitUpload == GhInit /\ DecIdle /\ IcannIdle /\ MainIdle
SpecUpload == InitUpload /\ [][GhNext]_vars

----------------------------------------------------------------------------
\* Properties of the stream decoder

IsPrefix(a, b) == Len(a) <= Len(b) /\ SubSeq(b, 1, Len(a)) = a

\* the stream decompressed and decoded in one piece
WholeDecompressed == decompress(NewDecompressObj, zstream)
WholeDecoded == decode(WholeDecompressed.out)
WellFormed == ~WholeDecompressed.err /\ ~WholeDecoded.err

\* the first whitespace-delimited token of a line that has one
HasToken(line) == \E i \in 1..Len(line) : line[i] \notin Whitespace
FirstToken(line) ==
    LET b == CHOOSE i \in 1..Len(line) :
                 line[i] \notin Whitespace /\ \A j \in 1..(i-1) : line[j] \in Whitespace
        e == CHOOSE k \in b..Len(line) :
                 /\ \A j \in b..k : line[j] \notin Whitespace
                 /\ k = Len(line) \/ line[k+1] \in Whitespace
    IN  SubSeq(line, b, e)

\* the lowered prefixes of a token
LoweredPrefixes(w) == {[i \in 1..k |-> LowerChar(w[i])] : k \in 0..Len(w)}

\* t is w lowercased without its trailing dots
AllDotsStripped(t, w) ==
    /\ t \in LoweredPrefixes(w)
    /\ \A i \in (Len(t)+1)..Len(w) : w[i] = "."
    /\ t = <<>> \/ t[Len(t)] # "."

\* t is w lowercased without its last character when that is a dot
OneDotStripped(t, w) ==
    /\ t \in LoweredPrefixes(w)
    /\ Len(t) = IF w[Len(w)] = "." THEN Len(w) - 1 ELSE Len(w)

\* the token a line contributes: empty when it contributes nothing
TokenAllDots(line) ==
    IF HasToken(line)
    THEN CHOOSE t \in LoweredPrefixes(FirstToken(line)) : AllDotsStripped(t, FirstToken(line))
    ELSE <<>>
TokenOneDot(line) ==
    IF HasToken(line)
    THEN CHOOSE t \in LoweredPrefixes(FirstToken(line)) : OneDotStripped(t, FirstToken(line))
    ELSE <<>>

NonEmpty(t) == t # <<>>
TokensAllDots(ls) == SelectSeq([i \in 1..Len(ls) |-> TokenAllDots(ls[i])], NonEmpty)
TokensOneDot(ls) == SelectSeq([i \in 1..Len(ls) |-> TokenOneDot(ls[i])], NonEmpty)

\* the latest iteration yielded exactly Tok(lines); at the end last_line was
\* flushed as one single-token batch exactly when Tok gives it a token
EmitsTokens(Tok(_)) ==
    /\ (dec_pc \in {"loop", "done"} /\ chunks # <<>>)
          => yielded[Len(chunks)] = Tok(lines)
    /\ (dec_pc = "done" /\ temp_file # "None")
          => /\ Len(yielded) = Len(chunks) + Len(Tok(<<last_line>>))
             /\ Tok(<<last_line>>) # <<>> => yielded[Len(yielded)] = Tok(<<last_line>>)

\* C1 (as claimed): when the decoder has drained a well-formed stream, the
\* batches it yielded, concatenated in order, are the tokens of the lines of
\* the whole decompressed text, whatever the chunking was.
C1_ChunkBoundaryInvariance ==
    (dec_pc = "done" /\ temp_file # "None" /\ WellFormed)
        => Concat(yielded) = UrlBatch(splitlines(WholeDecoded.text))

\* C3: a chunk on which decompression fails makes the decoder raise zlib.error
\* to its caller; one batch was yielded for each earlier chunk, the batches
\* yielded are never changed or taken back, and none follows the failure.
C3_StreamCorrupt ==
    /\ [](decompress(NewDecompressObj, Concat(chunks)).err
            => /\ dec_pc = "raised"
               /\ dec_err = "zlib.error"
               /\ Len(yielded) = Len(chunks) - 1)
    /\ [][/\ IsPrefix(yielded, yielded')
          /\ dec_pc = "raised" => (yielded' = yielded /\ dec_pc' = "raised")]_vars

\* C3 witness: the second chunk is corrupt after a first chunk gave a token
C3_Witness ==
    /\ dec_pc = "raised"
    /\ dec_err = "zlib.error"
    /\ Len(chunks) = 2
    /\ yielded = << << <<"a">> >> >>

\* C10 (as claimed): every completed line contributes its first
\* whitespace-delimited token, lowercased, with one trailing "." removed, and
\* nothing when that is empty.
C10_SingleTrailingDot == EmitsTokens(TokensOneDot)

\* C10 (amended): every completed line contributes its first
\* whitespace-delimited token, lowercased, with all its trailing "." removed,
\* and nothing when that is empty.
C10_TokenNormalization == EmitsTokens(TokensAllDots)

\* C10 witness: the line "B.." was flushed as the token "b"
C10_Witness ==
    /\ dec_pc = "done"
    /\ last_line = <<"B", ".", ".">>
    /\ yielded[Len(yielded)] = << <<"b">> >>

\* C11 (as claimed): when the stream raises after a token was yielded, the
\* job hands on the batches made so far and nothing more, and ends as failed,
\* not as a sequence that completed.
C11_JobMarkedFailed ==
    (dec_pc = "raised" /\ Concat(yielded) # <<>>)
        => /\ job_pc = "failed"
           /\ job_out = [i \in 1..Len(yielded) |-> generate_hostname_expressions(yielded[i])]

\* the text decompressed and decoded from the chunks read so far
TextSoFar == decode(decompress(NewDecompressObj, Concat(chunks)).out).text
LineEndsIn(t) == {i \in 1..Len(t) : t[i] \in LineEnds}
LastLineEnd(t) == CHOOSE i \in LineEndsIn(t) : \A j \in LineEndsIn(t) : j <= i
\* what follows the last line terminator of t
Unterminated(t) ==
    IF LineEndsIn(t) = {} THEN t ELSE SubSeq(t, LastLineEnd(t) + 1, Len(t))
\* the lines of t that have their terminator
TerminatedLines(t) ==
    IF LineEndsIn(t) = {} THEN <<>> ELSE splitlines(SubSeq(t, 1, LastLineEnd(t)))

\* C12 (as claimed): after each chunk last_line is the text so far after its
\* last line terminator, and the tokens yielded so far are those of the
\* terminated lines of the text so far.
C12_PendingBuffer ==
    (dec_pc = "loop" /\ chunks # <<>>)
        => /\ last_line = Unterminated(TextSoFar)
           /\ Concat(yielded) = TokensAllDots(TerminatedLines(TextSoFar))

\* C13 (as claimed): no exception leaves the decoder on a stream that
\* decompresses and decodes as a whole, however it is cut into chunks.
C13_NeverRaisesOnWellFormed ==
    (temp_file = "file" /\ WellFormed) => (dec_pc # "raised" /\ dec_err = "none")

\* C14 (as claimed): the decoder ends only on the empty read at the end of
\* the stream, having then flushed last_line as one single-token batch
\* exactly when it has a token; and on a stream that decompresses and decodes
\* as a whole it does not stop before that end.
C14_FlushAndTermination ==
    /\ (dec_pc = "done" /\ temp_file = "file")
          => /\ pos = Len(zstream)
             /\ Concat(chunks) = zstream
             /\ Len(yielded) = Len(chunks) + Len(TokensAllDots(<<last_line>>))
             /\ TokensAllDots(<<last_line>>) # <<>>
                   => yielded[Len(yielded)] = TokensAllDots(<<last_line>>)
    /\ (temp_file = "file" /\ WellFormed) => (dec_pc = "done" \/ ENABLED DecNext)

\* C17: when get_async_stream gives no stream, the job yields one empty
\* batch and ends, and no exception left the decoder or the job.
C17_NoStreamSkipsJob ==
    temp_file = "None"
        => /\ job_out = <<{}>>
           /\ job_pc = "done"
           /\ yielded = << <<>> >>
           /\ dec_pc = "done"
           /\ dec_err = "none"
           /\ chunks = <<>>
           /\ ~ENABLED DecNext

\* C17 witness: there was a body to read, but no stream was given
C17_Witness ==
    /\ temp_file = "None"
    /\ job_pc = "done"
    /\ Len(zstream) > HdrLen

----------------------------------------------------------------------------
\* Properties of the ICANN feed

Sent == {requests[i] : i \in 1..Len(requests)}
Bearer == {r \in Sent : r.kind \in {"links", "download"}}

\* C2 (as claimed): when the authentication body has no token, __init__ ends
\* with AuthError, and no listing or download request carries a blank token.
C2_AuthError ==
    /\ (~auth_body.has_token /\ \E r \in Sent : r.kind = "authenticate")
          => (ic_pc = "raised" /\ ic_err = "AuthError")
    /\ \A r \in Bearer : r.token # ""

\* C6 (as claimed): every listing or download request is made within
\* TokenValidityHours of the issuance of the token it carries.
C6_CredentialValidity ==
    \A r \in Bearer : r.at - r.issued <= TokenValidityHours

\* C9: once the listing has answered with an empty list or with a body that
\* is no list, __init__ has ended without raising and both self.jobs and
\* self.db_filenames are empty.
C9_EmptyDiscovery ==
    (/\ ic_pc \notin {"init", "authenticated"}
     /\ parser_args.sources_icann
     /\ ~links_body.is_list \/ links_body.items = <<>>)
        => (ic_pc = "done" /\ ic_err = "none" /\ jobs = <<>> /\ db_filenames = <<>>)

\* C9 witness: fetching was asked for and the listing answered with an object
C9_Witness ==
    /\ ic_pc = "done"
    /\ parser_args.sources_icann /\ parser_args.fetch
    /\ ~links_body.is_list
    /\ \E r \in Sent : r.kind = "links"

\* the URLs of the listing, when it is a list
Listed == IF links_body.is_list THEN links_body.items ELSE <<>>
NoSeparator(f) == \A k \in 1..Len(f) : f[k] \notin {".", "/"}
\* name is "icann_" and the part of url's last path segment between its last
\* two dots (or from the start of the segment to its last dot)
DerivedFrom(name, url) ==
    \E i \in 1..Len(url) : \E j \in i..(Len(url) - 1) :
        /\ name = <<"icann_">> \o SubSeq(url, i, j)
        /\ NoSeparator(SubSeq(url, i, j))
        /\ url[j + 1] = "."
        /\ NoSeparator(SubSeq(url, j + 2, Len(url)))
        /\ i = 1 \/ url[i - 1] \in {".", "/"}

Where(kind) == {i \in 1..Len(requests) : requests[i].kind = kind}

\* C16: a discovery makes one authentication request, never a second one;
\* the listing request comes after it; every job, and every download it
\* makes, carries the token that exchange returned.
C16_AuthenticationOrdering ==
    /\ Cardinality(Where("authenticate")) <= 1
    /\ (parser_args.sources_icann /\ ic_pc # "init")
          => Cardinality(Where("authenticate")) = 1
    /\ Cardinality(Where("links")) <= 1
    /\ \A l \in Where("links") : \E a \in Where("authenticate") : a < l
    /\ \A j \in 1..Len(jobs) :
          jobs[j].access_token
              = IF auth_body.has_token THEN auth_body.accessToken ELSE ""
    /\ \A r \in Where("download") : \E j \in 1..Len(jobs) :
          requests[r].token = jobs[j].access_token

\* C16 witness: a job made by a discovery was started
C16_Witness ==
    /\ ic_pc = "done"
    /\ jobs # <<>>
    /\ Where("download") # {}
    /\ Where("authenticate") = {1}

----------------------------------------------------------------------------
\* Properties of main.py

C5_UnionOfVerdicts ==
    \A i \in 1..Len(written) :
        /\ ToSet(written[i].malicious_urls)
              = ToSet(google_malicious_urls) \cup ToSet(yandex_malicious_urls)
        /\ NoDuplicates(written[i].malicious_urls)

\* C5 witness: both vendors flagged the same hostname and one flagged another
C5_Witness ==
    /\ main_pc = "done"
    /\ Len(written) = 1
    /\ ToSet(google_malicious_urls) \cap ToSet(yandex_malicious_urls) # {}
    /\ ToSet(google_malicious_urls) # ToSet(yandex_malicious_urls)

LookedUp == main_pc \in {"yandex", "merge"} \/ written # <<>>

----------------------------------------------------------------------------
\* Properties of upload_blocklists

HasData(f) == f \notin {"", "unreadable"}

\* C8: main is moved only to the new commit, only when a file has data and
\* the comparison reports a change, that is when a file's data differs from
\* what main holds at its path; no tree or commit holds an element without
\* data; when every file is empty no tree and no commit is created.
C8_PublishOnlyChanges ==
    /\ main_ref # "c0"
          => /\ main_ref = "c1"
             /\ \E k \in 1..Len(commits_created) : commits_created[k].sha = "c1"
             /\ files_changed # {}
             /\ \E i \in 1..Len(gh_files) :
                    HasData(gh_files[i]) /\ base_tree[i] # gh_files[i]
    /\ \A k \in 1..Len(trees_created) : \A j \in 1..Len(trees_created[k]) :
          /\ trees_created[k][j].data # ""
          /\ gh_files[trees_created[k][j].path] = trees_created[k][j].data
    /\ \A k \in 1..Len(commits_created) : \A j \in 1..Len(commits_created[k].tree) :
          commits_created[k].tree[j].data # ""
    /\ (\A i \in 1..Len(gh_files) : gh_files[i] = "")
          => (trees_created = <<>> /\ commits_created = <<>>)

\* C8 witness: of two files one is empty and one differs from main, and main
\* was moved to a commit holding the one with data
C8_Witness ==
    /\ gh_pc = "returned"
    /\ main_ref = "c1"
    /\ Len(gh_files) = 2
    /\ \E i \in 1..2 : gh_files[i] = ""
    /\ Len(element_list) = 1

\* the run met a failure: the environment lacks a value, a file cannot be
\* read, or the GitHub call that is to fail was made
Failed ==
    \/ gh_pc # "start" /\ gh_env # "ok"
    \/ gh_pc # "start" /\ gh_fail_at \in {"get_repo", "get_git_ref", "get_git_tree"}
    \/ gh_pc \notin {"start", "read"} /\ \E i \in 1..Len(gh_files) : gh_files[i] = "unreadable"
    \/ /\ gh_pc \notin {"start", "read", "commit"}
       /\ element_list # <<>>
       /\ gh_fail_at \in {"create_git_tree", "get_git_commit", "create_git_commit", "compare"}
    \/ gh_pc = "returned" /\ files_changed # {} /\ gh_fail_at = "edit"

\* C18: upload_blocklists always returns and no exception leaves it; a
\* failure at any step is logged, and then main still points where it did.
C18_NoExceptionEscapes ==
    /\ gh_pc \in {"start", "read", "commit", "push", "returned"}
    /\ gh_pc = "returned" \/ ENABLED GhNext
    /\ Failed => (gh_pc = "returned" /\ gh_log = "failed" /\ main_ref = "c0")
    /\ gh_log = "failed" => (Failed /\ main_ref = "c0")
    /\ gh_pc = "returned" => gh_log # "none"

\* C18 witness: the comparison failed after the commit had been made
C18_Witness ==
    /\ gh_pc = "returned"
    /\ gh_log = "failed"
    /\ gh_fail_at = "compare"
    /\ commits_created # <<>>
    /\ main_ref = "c0"

====
